---- MODULE Spec2Model ----
(***************************************************************************)
(* Shop API (src/main.py, src/schemas.py): the checkout handler, the admin *)
(* product handlers, the two listings and the two collections "product"    *)
(* and "order" of the document store they work on.                         *)
(*                                                                         *)
(* Every store call of the checkout handler (find_one, update_one, the     *)
(* insert of create_document) is one atomic step, so that concurrent       *)
(* requests interleave between the store calls exactly as the handlers of  *)
(* a threaded server do.                                                   *)
(*                                                                         *)
(* Money is counted in thousandths of a currency unit (9.99 is 9990), so   *)
(* that round(total, 2) is a real rounding, to a multiple of 10.           *)
(***************************************************************************)
EXTENDS Integers, Sequences, FiniteSets, TLC

VARIABLES
    db,           \* the store: [product |-> [oid -> document or None], order |-> sequence]
    clock,        \* requests accepted so far; the store's time for created_at/updated_at
    pc,           \* per handler thread: the position of its checkout
    cart,         \* payload.items of the checkout the thread runs
    i,            \* index of the cart line the current loop is at
    order_items,  \* the local order_items list
    total,        \* the local running total
    seen,         \* the documents find_one returned, one per line read (the local prod)
    snap,         \* the store as it was when the checkout was accepted
    result,       \* the response of the thread's checkout, None while it runs
    admin         \* the admin or catalogue request being answered and its response, or None

vars == <<db, clock, pc, cart, i, order_items, total, seen, snap, result, admin>>

\* ---------------------------------------------------------------- bounds

\* Requests (checkouts and admin calls) accepted in one behaviour.
MaxRequests == 2
\* Lines of one cart.
MaxCartLen == 2

\* The handler threads that serve checkouts concurrently.
Procs == {1, 2}

\* ---------------------------------------------------------------- values

\* Python's None.
None == [none |-> TRUE]

\* The ObjectIds the store can hold, each written as str() prints it:
\* lower-case hexadecimal.
Oids == {"p1", "p2", "p3"}

\* The product_id strings a request may carry: one ObjectId in lower case, one
\* in upper case, one no product has at first, and a string that is no ObjectId.
IdStrings == {"p1", "P2", "p3", "zz"}

\* The strings bson's ObjectId() accepts: 24 hexadecimal digits of either case.
ObjectIdValid(s) == s \in {"p1", "p2", "P2", "p3"}

\* ObjectId(s) for an accepted s: bytes.fromhex reads the digits of either
\* case, so both spellings give the same ObjectId.
ObjectId(s) == IF s = "P2" THEN "p2" ELSE s

\* str(oid): the lower-case hexadecimal form, which is how Oids are written.
str(oid) == oid

\* The quantities of a cart line: CartItem.quantity is any int, negative and
\* zero included.
Quantities == {-1, 0, 3}

CartItems == [product_id : IdStrings, quantity : Quantities]

\* Sequences over S of length at most n.
SeqUpTo(S, n) == UNION {[1..k -> S] : k \in 0..n}

\* payload.items of a CheckoutRequest.
CheckoutRequests == SeqUpTo(CartItems, MaxCartLen)

\* ---------------------------------------------------------------- arithmetic

\* round(x, 2) on thousandths: the nearest multiple of 10. A tie goes to the
\* even hundredth; the prices of the model give no total that is a tie, where
\* a binary float would decide by its representation error.
round2(x) ==
    LET lo == x - (x % 10)
        r  == x % 10
    IN  IF r < 5 THEN lo
        ELSE IF r > 5 THEN lo + 10
        ELSE IF (lo \div 10) % 2 = 0 THEN lo ELSE lo + 10

\* ---------------------------------------------------------------- schemas

\* OrderItemValid with quantity allowed from 0 (ge=0 for ge=1).
OrderItemValid_ge0(title, price, quantity, subtotal) ==
    /\ price >= 0
    /\ quantity >= 0
    /\ subtotal >= 0

\* OrderItem's field constraints: price >= 0, quantity >= 1, subtotal >= 0
\* (and title a str, which every title of the model is).
OrderItemValid(title, price, quantity, subtotal) ==
    /\ price >= 0
    /\ quantity >= 1
    /\ subtotal >= 0

OrderItem(product_id, title, price, quantity, subtotal) ==
    [product_id |-> product_id, title |-> title, price |-> price,
     quantity |-> quantity, subtotal |-> subtotal]

\* Order's field constraint: total >= 0.
OrderValid(order_total) == order_total >= 0

\* Order built without the items: the field's default_factory gives [].
Order_noitems(items, order_total) ==
    [buyer_name |-> None, buyer_email |-> None, items |-> <<>>,
     total |-> order_total, status |-> "paid"]

Order(items, order_total) ==
    [buyer_name |-> None, buyer_email |-> None, items |-> items,
     total |-> order_total, status |-> "paid"]

\* ---------------------------------------------------------------- store

\* db[coll].find_one({"_id": oid}): the document, or None.
find_one(coll, oid) == coll[oid]

\* set_fields with the filter lost: every document is written (update_many
\* on an empty filter).
set_fields_all(coll, oid, fields) ==
    [o \in DOMAIN coll |->
        IF coll[o] = None THEN coll[o]
        ELSE [f \in DOMAIN coll[o] |->
                 IF f \in DOMAIN fields THEN fields[f] ELSE coll[o][f]]]

\* update_one(..., {"$set": fields}) on the document with this id; no
\* document matching changes nothing.
set_fields(coll, oid, fields) ==
    IF coll[oid] = None THEN coll
    ELSE [coll EXCEPT ![oid] =
            [f \in DOMAIN @ |-> IF f \in DOMAIN fields THEN fields[f] ELSE @[f]]]

\* decrement_stock with in_stock derived from the stock that is left, not forced.
decrement_stock_derived(coll, oid, quantity) ==
    IF coll[oid] = None THEN coll
    ELSE [coll EXCEPT ![oid].stock = @ - quantity,
                      ![oid].in_stock = (coll[oid].stock - quantity > 0)]

\* decrement_stock that stops at zero.
decrement_stock_floor(coll, oid, quantity) ==
    IF coll[oid] = None THEN coll
    ELSE [coll EXCEPT ![oid].stock = IF @ - quantity < 0 THEN 0 ELSE @ - quantity,
                      ![oid].in_stock = TRUE]

\* The checkout's update_one: {"$inc": {"stock": -quantity}, "$set": {"in_stock": True}}.
decrement_stock(coll, oid, quantity) ==
    IF coll[oid] = None THEN coll
    ELSE [coll EXCEPT ![oid].stock = @ - quantity, ![oid].in_stock = TRUE]

\* create_document(collection, data) of the database module: the document
\* that is inserted is data with created_at and updated_at of now and the _id
\* the store gives it.
create_document(data, id, now) ==
    [f \in DOMAIN data \cup {"_id", "created_at", "updated_at"} |->
        IF f \in DOMAIN data THEN data[f]
        ELSE IF f = "_id" THEN id ELSE now]

\* A Product payload; description, category and image_url are the same for
\* every product of the model.
Product(title, price, stock, in_stock) ==
    [title |-> title, description |-> "d", price |-> price, category |-> "c",
     stock |-> stock, image_url |-> "u", in_stock |-> in_stock]

\* ---------------------------------------------------------------- init

\* Two products have been created and edited by the admin before the first
\* request of the behaviour: A with stock 5, B with stock 3, in_stock false
\* and a category of its own.
InitialProducts ==
    [o \in Oids |->
        CASE o = "p1" -> create_document(Product("A", 9990, 5, TRUE), o, -1)
          [] o = "p2" -> create_document(
                             [Product("B", 1004, 3, FALSE) EXCEPT !.category = "k"],
                             o, 0)
          [] OTHER    -> None]

Init ==
    /\ db = [product |-> InitialProducts, order |-> <<>>]
    /\ clock = 0
    /\ pc = [p \in Procs |-> "idle"]
    /\ cart = [p \in Procs |-> <<>>]
    /\ i = [p \in Procs |-> 0]
    /\ order_items = [p \in Procs |-> <<>>]
    /\ total = [p \in Procs |-> 0]
    /\ seen = [p \in Procs |-> <<>>]
    /\ snap = [p \in Procs |-> None]
    /\ result = [p \in Procs |-> None]
    /\ admin = None

\* ---------------------------------------------------------------- checkout

\* The response of a checkout that raised.
Error(kind, detail) == [kind |-> kind, detail |-> detail]

\* POST /checkout accepted: the locals of checkout() are initialised. The
\* threads are interchangeable, so the request goes to the first free one.
Start(p) ==
    /\ pc[p] = "idle"
    /\ \A q \in Procs : q < p => pc[q] # "idle"
    /\ clock < MaxRequests
    /\ clock' = clock + 1
    /\ \E items \in CheckoutRequests :
        /\ cart' = [cart EXCEPT ![p] = items]
        /\ pc' = [pc EXCEPT ![p] = IF items = <<>> THEN "insert" ELSE "validate"]
    /\ order_items' = [order_items EXCEPT ![p] = <<>>]
    /\ total' = [total EXCEPT ![p] = 0]
    /\ seen' = [seen EXCEPT ![p] = <<>>]
    /\ snap' = [snap EXCEPT ![p] = db]
    /\ i' = [i EXCEPT ![p] = 1]
    /\ UNCHANGED <<db, result, admin>>

\* The checkout raises: its response is the error and nothing else is done.
Raise(p, err) ==
    /\ result' = [result EXCEPT ![p] = err]
    /\ pc' = [pc EXCEPT ![p] = "done"]

\* check_line with the stock comparison off by one (<= for <).
check_line_offbyone(item, prod) ==
    IF ~ObjectIdValid(item.product_id)
    THEN Error("InvalidReference", item.product_id)
    ELSE IF prod = None
    THEN Error("NotFound", item.product_id)
    ELSE IF prod.stock <= item.quantity
    THEN Error("InsufficientStock", prod.title)
    ELSE None

\* The three checks of a cart line, in the order the loop makes them; prod is
\* what find_one returned (not read when the id is no ObjectId). None: the
\* line passes.
check_line(item, prod) ==
    IF ~ObjectIdValid(item.product_id)
    THEN Error("InvalidReference", item.product_id)
    ELSE IF prod = None
    THEN Error("NotFound", item.product_id)
    ELSE IF prod.stock < item.quantity
    THEN Error("InsufficientStock", prod.title)
    ELSE None

\* line_subtotal without the quantity.
line_subtotal_unit(price, quantity) == price

\* subtotal = price * item.quantity
line_subtotal(price, quantity) == price * quantity

\* accumulate as an assignment (= for +=).
accumulate_overwrite(running, subtotal) == subtotal

\* total += subtotal
accumulate(running, subtotal) == running + subtotal

\* One pass of the validation loop: the line payload.items[i].
ValidateLine(p) ==
    /\ pc[p] = "validate"
    /\ LET item == cart[p][i[p]]
           valid == ObjectIdValid(item.product_id)
           prod == IF valid THEN find_one(db.product, ObjectId(item.product_id))
                   ELSE None
           err == check_line(item, prod)
       IN  /\ seen' = [seen EXCEPT ![p] = IF valid THEN Append(@, prod) ELSE @]
           /\ IF err # None
              THEN /\ Raise(p, err)
                   /\ UNCHANGED <<i, order_items, total>>
              ELSE
              LET price == prod.price
                  subtotal == line_subtotal(price, item.quantity)
              IN  IF ~OrderItemValid(prod.title, price, item.quantity, subtotal)
                  THEN /\ Raise(p, Error("ValidationError", item.product_id))
                       /\ UNCHANGED <<i, order_items, total>>
                  ELSE /\ total' = [total EXCEPT ![p] = accumulate(@, subtotal)]
                       /\ order_items' = [order_items EXCEPT ![p] =
                              Append(@, OrderItem(str(prod._id),
                                                  prod.title, price,
                                                  item.quantity, subtotal))]
                       /\ IF i[p] < Len(cart[p])
                          THEN /\ i' = [i EXCEPT ![p] = @ + 1]
                               /\ UNCHANGED pc
                          ELSE /\ i' = [i EXCEPT ![p] = 1]
                               /\ pc' = [pc EXCEPT ![p] = "commit"]
                       /\ UNCHANGED result
    /\ UNCHANGED <<db, clock, cart, snap, admin>>

\* DecrementLine with the loop left after its first pass (a return or break
\* inside the loop body).
DecrementLine_once(p) ==
    /\ pc[p] = "commit"
    /\ LET item == cart[p][i[p]]
       IN  db' = [db EXCEPT !.product =
                     decrement_stock(@, ObjectId(item.product_id), item.quantity)]
    /\ i' = [i EXCEPT ![p] = @ + 1]
    /\ pc' = [pc EXCEPT ![p] = "insert"]
    /\ UNCHANGED <<clock, cart, order_items, total, seen, snap, result, admin>>

\* One pass of the decrement loop: update_one for the line payload.items[i].
DecrementLine(p) ==
    /\ pc[p] = "commit"
    /\ LET item == cart[p][i[p]]
       IN  db' = [db EXCEPT !.product =
                     decrement_stock(@, ObjectId(item.product_id), item.quantity)]
    /\ i' = [i EXCEPT ![p] = @ + 1]
    /\ pc' = [pc EXCEPT ![p] = IF i[p] < Len(cart[p]) THEN "commit" ELSE "insert"]
    /\ UNCHANGED <<clock, cart, order_items, total, seen, snap, result, admin>>

\* The order is built from the locals and inserted; the handler returns.
InsertOrder(p) ==
    /\ pc[p] = "insert"
    /\ LET order == Order(order_items[p], round2(total[p]))
       IN  IF ~OrderValid(order.total)
           THEN /\ Raise(p, Error("ValidationError", "total"))
                /\ UNCHANGED db
           ELSE /\ db' = [db EXCEPT !.order =
                              Append(@, create_document(order, Len(@) + 1, clock))]
                /\ result' = [result EXCEPT ![p] =
                       [kind |-> "ok", order_id |-> Len(db.order) + 1,
                        total |-> order.total]]
                /\ pc' = [pc EXCEPT ![p] = "done"]
    /\ UNCHANGED <<clock, cart, i, order_items, total, seen, snap, admin>>

\* The store call the commit phase is about to make (an update_one, the
\* insert) raises (connection lost, timeout): the exception leaves the handler
\* as an internal error.
StoreFailure(p) ==
    /\ pc[p] \in {"commit", "insert"}
    /\ Raise(p, Error("InternalError", "store"))
    /\ UNCHANGED <<db, clock, cart, i, order_items, total, seen, snap, admin>>

\* The response is sent; the thread takes the next request.
Respond(p) ==
    /\ pc[p] = "done"
    /\ pc' = [pc EXCEPT ![p] = "idle"]
    /\ cart' = [cart EXCEPT ![p] = <<>>]
    /\ i' = [i EXCEPT ![p] = 0]
    /\ order_items' = [order_items EXCEPT ![p] = <<>>]
    /\ total' = [total EXCEPT ![p] = 0]
    /\ seen' = [seen EXCEPT ![p] = <<>>]
    /\ snap' = [snap EXCEPT ![p] = None]
    /\ result' = [result EXCEPT ![p] = None]
    /\ UNCHANGED <<db, clock, admin>>

\* ---------------------------------------------------------------- admin

\* The fields a ProductUpdate of the model may set, and the value it sets.
UpdateValues == [title |-> "T", price |-> 2503, stock |-> 4]

\* payload.model_dump(exclude_unset=True): the fields the request set.
ProductUpdates == {[f \in fs |-> UpdateValues[f]] : fs \in SUBSET DOMAIN UpdateValues}

\* apply_update that also carries a new price into the items of the orders
\* that reference the product.
apply_update_cascade(d, oid, update) ==
    [product |-> set_fields(d.product, oid, update),
     order |-> [k \in 1..Len(d.order) |->
         [d.order[k] EXCEPT !.items =
             [n \in 1..Len(@) |->
                 IF @[n].product_id = str(oid) /\ "price" \in DOMAIN update
                 THEN [@[n] EXCEPT !.price = update.price]
                 ELSE @[n]]]]]

\* The handler's write: update_one({"_id": oid}, {"$set": update}) on the
\* product collection, update carrying the updated_at that was read.
apply_update(d, oid, update) ==
    [d EXCEPT !.product = set_fields(@, oid, update)]

\* PATCH /admin/products/{product_id}. The handler's find_one and update_one
\* are one step: the only field read is updated_at, which no other request
\* writes a different value to.
update_product ==
    /\ admin = None
    /\ clock < MaxRequests
    /\ clock' = clock + 1
    /\ \E product_id \in IdStrings, update \in ProductUpdates :
        LET request == [op |-> "update_product", product_id |-> product_id,
                        update |-> update]
            respond(kind) == admin' = [request |-> request, kind |-> kind]
        IN  IF ~ObjectIdValid(product_id)
            THEN respond("InvalidReference") /\ UNCHANGED db
            ELSE IF DOMAIN update = {}
            THEN respond("ValidationError") /\ UNCHANGED db
            ELSE
            LET oid == ObjectId(product_id)
                found == find_one(db.product, oid)
            IN  IF found = None
                THEN \* None.get(...) raises AttributeError
                     respond("InternalError") /\ UNCHANGED db
                ELSE /\ db' = apply_update(db, oid,
                               [f \in DOMAIN update \cup {"updated_at"} |->
                                   IF f = "updated_at" THEN found.updated_at
                                   ELSE update[f]])
                     /\ respond("ok")
    /\ UNCHANGED <<pc, cart, i, order_items, total, seen, snap, result>>

\* The ProductCreate payload of the model: stock and in_stock left to the
\* schema's defaults.
ProductCreate == Product("C", 500, 0, TRUE)

\* POST /admin/products: the store gives the document an id no document has.
create_product ==
    /\ admin = None
    /\ clock < MaxRequests
    /\ clock' = clock + 1
    /\ \E oid \in Oids :
        /\ db.product[oid] = None
        /\ db' = [db EXCEPT !.product[oid] =
                      create_document(ProductCreate, oid, clock + 1)]
        /\ admin' = [request |-> [op |-> "create_product", product_id |-> str(oid),
                                  update |-> ProductCreate],
                     kind |-> "ok"]
    /\ UNCHANGED <<pc, cart, i, order_items, total, seen, snap, result>>

\* to_serializable(doc): a copy of the document with _id replaced by id, its
\* string form.
to_serializable(doc) ==
    [f \in (DOMAIN doc \ {"_id"}) \cup {"id"} |->
        IF f = "id" THEN str(doc._id) ELSE doc[f]]

\* find().sort("created_at", -1) on a collection held as a sequence: its
\* documents in an order of non-increasing created_at; documents of equal
\* created_at come in any order.
sort_newest_first(docs) ==
    LET n == Len(docs)
        orderings == {f \in [1..n -> 1..n] :
                         /\ \A j, k \in 1..n : j # k => f[j] # f[k]
                         /\ \A k \in 1..(n - 1) :
                                docs[f[k]].created_at >= docs[f[k + 1]].created_at}
    IN  {[k \in 1..n |-> docs[f[k]]] : f \in orderings}

\* The q and category strings a GET /products of the model may carry: an
\* empty string, a letter in the case other than the stored text's, and a
\* category one product has.
QueryValues == [q : {"", "a", "D"}, category : {"", "k"}]

\* The query parameters of a request: each of q and category given or not
\* (a parameter not given is None in the handler).
ListParams ==
    UNION {[fs -> {"", "a", "D", "k"}] : fs \in SUBSET {"q", "category"}}

ListQueries ==
    {params \in ListParams :
        \A f \in DOMAIN params : \E v \in QueryValues : v[f] = params[f]}

\* str.lower() on the letters of the model's texts.
lower(s) ==
    CASE s = "A" -> "a" [] s = "B" -> "b" [] s = "C" -> "c" [] s = "D" -> "d"
      [] s = "T" -> "t" [] OTHER -> s

\* {"$regex": pattern, "$options": "i"} on a text field: the pattern, a
\* literal here, occurs in the text, letter case ignored. The texts of the
\* model are one letter long, so a non-empty pattern occurs in a text when it
\* is that letter.
regex_search(pattern, text) ==
    lower(pattern) = "" \/ lower(pattern) = lower(text)

\* if q: / if category: the truth value of a str that was given.
truthy(params, f) == f \in DOMAIN params /\ params[f] # ""

\* The filt dictionary the handler builds: "$or" (held under q, its pattern)
\* and "category" are set only for a parameter that is truthy.
list_filter(params) ==
    [f \in {g \in {"q", "category"} : truthy(params, g)} |-> params[f]]

\* matches with the two dimensions joined by or.
matches_any(doc, filt) ==
    \/ DOMAIN filt = {}
    \/ /\ "q" \in DOMAIN filt
       /\ \/ regex_search(filt.q, doc.title)
          \/ regex_search(filt.q, doc.description)
    \/ /\ "category" \in DOMAIN filt
       /\ doc.category = filt.category

\* The store's evaluation of filt on a document: every key of the filter
\* must hold, "$or" holding when one of its two clauses does.
matches(doc, filt) ==
    /\ "q" \in DOMAIN filt =>
           \/ regex_search(filt.q, doc.title)
           \/ regex_search(filt.q, doc.description)
    /\ "category" \in DOMAIN filt => doc.category = filt.category

\* db["product"].find(filt): the documents of the collection that match.
find(coll, filt) ==
    {coll[o] : o \in {x \in DOMAIN coll : coll[x] # None /\ matches(coll[x], filt)}}

\* .sort("created_at", -1) on a set of documents: its enumerations in an
\* order of non-increasing created_at.
sort_cursor(docs) ==
    LET n == Cardinality(docs)
    IN  {f \in [1..n -> docs] :
            /\ \A j, k \in 1..n : j # k => f[j] # f[k]
            /\ \A k \in 1..(n - 1) : f[k].created_at >= f[k + 1].created_at}

\* GET /products.
list_products ==
    /\ admin = None
    /\ clock < MaxRequests
    /\ clock' = clock + 1
    /\ \E params \in ListQueries :
        \E docs \in sort_cursor(find(db.product, list_filter(params))) :
            admin' = [request |-> [op |-> "list_products", params |-> params],
                      kind |-> "ok",
                      body |-> [k \in 1..Len(docs) |-> to_serializable(docs[k])]]
    /\ UNCHANGED <<db, pc, cart, i, order_items, total, seen, snap, result>>

\* GET /admin/orders.
list_orders ==
    /\ admin = None
    /\ clock < MaxRequests
    /\ clock' = clock + 1
    /\ \E docs \in sort_newest_first(db.order) :
        admin' = [request |-> [op |-> "list_orders"], kind |-> "ok",
                  body |-> [k \in 1..Len(docs) |-> to_serializable(docs[k])]]
    /\ UNCHANGED <<db, pc, cart, i, order_items, total, seen, snap, result>>

\* The admin handler's response is sent.
AdminRespond ==
    /\ admin # None
    /\ admin' = None
    /\ UNCHANGED <<db, clock, pc, cart, i, order_items, total, seen, snap, result>>

\* ---------------------------------------------------------------- specification

Next ==
    \/ \E p \in Procs : Start(p)
    \/ \E p \in Procs : ValidateLine(p)
    \/ \E p \in Procs : DecrementLine(p)
    \/ \E p \in Procs : InsertOrder(p)
    \/ \E p \in Procs : StoreFailure(p)
    \/ \E p \in Procs : Respond(p)
    \/ update_product
    \/ create_product
    \/ list_orders
    \/ list_products
    \/ AdminRespond

\* Concurrent requests: any interleaving of the handlers' store calls.
Spec == Init /\ [][Next]_vars

\* No request is being served.
Quiet == admin = None /\ \A p \in Procs : pc[p] = "idle"

\* Requests served one at a time: a request is accepted only when no other is
\* being served.
NextSeq ==
    \/ \E p \in Procs : Quiet /\ Start(p)
    \/ \E p \in Procs : ValidateLine(p)
    \/ \E p \in Procs : DecrementLine(p)
    \/ \E p \in Procs : InsertOrder(p)
    \/ \E p \in Procs : StoreFailure(p)
    \/ \E p \in Procs : Respond(p)
    \/ Quiet /\ update_product
    \/ Quiet /\ create_product
    \/ Quiet /\ list_orders
    \/ Quiet /\ list_products
    \/ AdminRespond

SpecSeq == Init /\ [][NextSeq]_vars

\* Concurrent requests where no store call raises and no update_product sets
\* a product's stock.
NextNoFailure ==
    \/ \E p \in Procs : Start(p)
    \/ \E p \in Procs : ValidateLine(p)
    \/ \E p \in Procs : DecrementLine(p)
    \/ \E p \in Procs : InsertOrder(p)
    \/ \E p \in Procs : Respond(p)
    \/ update_product /\ "stock" \notin DOMAIN admin'.request.update
    \/ create_product
    \/ list_orders
    \/ list_products
    \/ AdminRespond

SpecNoFailure == Init /\ [][NextNoFailure]_vars

\* ---------------------------------------------------------------- properties

\* The checkout of thread p has returned / has returned an order / has raised.
Returned(p) == pc[p] = "done"
Succeeded(p) == Returned(p) /\ result[p].kind = "ok"
Failed(p) == Returned(p) /\ result[p].kind # "ok"

\* The order a successful checkout created.
OrderOf(p) == db.order[result[p].order_id]

\* No product of the store d has negative stock.
StockNonNeg(d) ==
    \A o \in Oids : d.product[o] # None => d.product[o].stock >= 0

\* No two lines of the cart name the same product.
DistinctProducts(c) ==
    \A j, k \in 1..Len(c) :
        j # k => ObjectId(c[j].product_id) # ObjectId(c[k].product_id)

\* The quantity the cart requests of product o, over all its lines.
RECURSIVE RequestedOf(_, _)
RequestedOf(c, o) ==
    IF c = <<>> THEN 0
    ELSE RequestedOf(SubSeq(c, 1, Len(c) - 1), o)
         + (IF ObjectIdValid(c[Len(c)].product_id) /\ ObjectId(c[Len(c)].product_id) = o
            THEN c[Len(c)].quantity ELSE 0)

\* The sum of the items' subtotals.
RECURSIVE SumSubtotals(_)
SumSubtotals(items) ==
    IF items = <<>> THEN 0
    ELSE SumSubtotals(SubSeq(items, 1, Len(items) - 1)) + items[Len(items)].subtotal

\* The sum over the first n lines of (price read at validation * quantity).
RECURSIVE SumLines(_, _, _)
SumLines(c, docs, n) ==
    IF n = 0 THEN 0
    ELSE SumLines(c, docs, n - 1) + docs[n].price * c[n].quantity

\* C1: a checkout that ends in an error leaves every product's stock as it was
\* when the checkout began and leaves the orders as they were.
C1_AllOrNothing ==
    \A p \in Procs :
        Failed(p) =>
            /\ \A o \in Oids :
                   snap[p].product[o] # None =>
                       db.product[o].stock = snap[p].product[o].stock
            /\ db.order = snap[p].order

\* C2: while checkouts of carts that name each product once run concurrently,
\* each begun with every stock >= 0, no stock is negative.
C2_NoNegativeStock ==
    ( \A p \in Procs :
             /\ pc[p] # "idle"
             /\ DistinctProducts(cart[p])
             /\ StockNonNeg(snap[p]) )
    => StockNonNeg(db)

\* C3: two checkouts, each of 3 units of a product whose stock is 5: when both
\* have returned, one has succeeded, the other has failed with
\* InsufficientStock, and the stock is 2.
C3_TwoBuyersOfFive ==
    ( /\ clock = 2
      /\ \E p \in Procs : snap[p] # None /\ snap[p].product["p1"].stock = 5
      /\ \A p \in Procs :
             /\ Returned(p)
             /\ cart[p] = <<[product_id |-> "p1", quantity |-> 3]>>
             /\ result[p].kind # "InternalError" )
    => /\ \E p \in Procs :
              /\ result[p].kind = "ok"
              /\ \A q \in Procs \ {p} : result[q].kind = "InsufficientStock"
       /\ db.product["p1"].stock = 2

\* C4: checkouts run one at a time: a checkout that began with every stock
\* >= 0 and succeeded leaves every stock >= 0, whatever its cart.
C4_SerialStockNonNeg ==
    \A p \in Procs :
        (Succeeded(p) /\ StockNonNeg(snap[p])) => StockNonNeg(db)

\* C5: the total returned and the total stored in the order are equal, and
\* equal the sum of (price read at validation * quantity) over the cart lines
\* rounded to 2 decimals (a multiple of 10 thousandths at most 5 away from the
\* sum), which is the rounded sum of the order's item subtotals.
C5_Totals ==
    \A p \in Procs :
        Succeeded(p) =>
            LET order == OrderOf(p)
                sum == SumLines(cart[p], seen[p], Len(cart[p]))
            IN  /\ result[p].total = order.total
                /\ order.total = round2(sum)
                /\ order.total % 10 = 0
                /\ order.total - sum \in -5..5
                /\ order.total = round2(SumSubtotals(order.items))

\* A successful checkout of two lines whose exact sum is not a whole number of
\* hundredths.
C5_Witness ==
    \E p \in Procs :
        /\ Succeeded(p)
        /\ Len(cart[p]) = 2
        /\ SumSubtotals(OrderOf(p).items) % 10 # 0

\* The n-th item of the order is the snapshot of the n-th cart line, with
\* product_id as given.
ItemMirrorsLine(item, line, prod, product_id) ==
    /\ item.product_id = product_id
    /\ item.quantity = line.quantity
    /\ item.title = prod.title
    /\ item.price = prod.price
    /\ item.subtotal = prod.price * line.quantity

\* C6 as claimed: the order of a successful checkout has one item per cart
\* line, in cart order, the n-th with the n-th line's product id and quantity,
\* the title and price read when the line was validated, and
\* subtotal = price * quantity.
C6_ItemsMirrorCart ==
    \A p \in Procs :
        Succeeded(p) =>
            LET items == OrderOf(p).items
            IN  /\ Len(items) = Len(cart[p])
                /\ \A n \in 1..Len(items) :
                       ItemMirrorsLine(items[n], cart[p][n], seen[p][n],
                                       cart[p][n].product_id)

\* C6 as amended: the same, the n-th item's product_id being the string form
\* of the ObjectId that the n-th line's product_id parses to (the line's own
\* string when that is written in lower case).
C6_ItemsMirrorCartCanonical ==
    \A p \in Procs :
        Succeeded(p) =>
            LET items == OrderOf(p).items
            IN  /\ Len(items) = Len(cart[p])
                /\ \A n \in 1..Len(items) :
                       /\ ItemMirrorsLine(items[n], cart[p][n], seen[p][n],
                                          str(ObjectId(cart[p][n].product_id)))
                       /\ items[n].product_id \in Oids
                       /\ cart[p][n].product_id \in Oids =>
                              items[n].product_id = cart[p][n].product_id

\* A successful checkout of two lines, one with the id in upper case, one of
\* a product whose price has changed since the line was validated.
C6_Witness ==
    \E p \in Procs :
        /\ Succeeded(p)
        /\ Len(cart[p]) = 2
        /\ \E n \in 1..2 : cart[p][n].product_id \notin Oids
        /\ \E n \in 1..2 :
               db.product[ObjectId(cart[p][n].product_id)].price
                   # OrderOf(p).items[n].price

\* C7: no step removes an order or changes a field of an order that exists.
C7_OrdersImmutable ==
    [][ /\ Len(db'.order) >= Len(db.order)
        /\ \A k \in 1..Len(db.order) : db'.order[k] = db.order[k] ]_vars

\* An order holds an item whose product has since been given another price
\* and another title by update_product.
C7_Witness ==
    /\ admin # None
    /\ admin.kind = "ok"
    /\ admin.request.op = "update_product"
    /\ \E k \in 1..Len(db.order) :
           \E n \in 1..Len(db.order[k].items) :
               LET item == db.order[k].items[n]
               IN  /\ db.product[item.product_id].price # item.price
                   /\ db.product[item.product_id].title # item.title

\* C8: a checkout that fails a cart line's check failed at the first line, in
\* input order, that does not pass: the lines before it passed all three
\* checks on what was read for them, and the error is InvalidReference if the
\* line's id is malformed, else NotFound if no product was found, else
\* InsufficientStock, the stock read being below the quantity; and a checkout
\* that got past validation passed every line.
C8_FirstFailure ==
    \A p \in Procs :
        Returned(p) =>
            LET n == IF result[p].kind \in {"InvalidReference", "NotFound",
                                           "InsufficientStock"}
                     THEN i[p] ELSE Len(seen[p]) + 1
                Passed(k) ==
                    /\ ObjectIdValid(cart[p][k].product_id)
                    /\ seen[p][k] # None
                    /\ seen[p][k].stock >= cart[p][k].quantity
            IN  /\ \A k \in 1..(n - 1) : k <= Len(cart[p]) => Passed(k)
                /\ result[p].kind = "InvalidReference" =>
                       /\ ~ObjectIdValid(cart[p][n].product_id)
                       /\ result[p].detail = cart[p][n].product_id
                /\ result[p].kind = "NotFound" =>
                       /\ ObjectIdValid(cart[p][n].product_id)
                       /\ seen[p][n] = None
                       /\ result[p].detail = cart[p][n].product_id
                /\ result[p].kind = "InsufficientStock" =>
                       /\ ObjectIdValid(cart[p][n].product_id)
                       /\ seen[p][n] # None
                       /\ seen[p][n].stock < cart[p][n].quantity
                       /\ result[p].detail = seen[p][n].title
                /\ result[p].kind = "ok" => Len(seen[p]) = Len(cart[p])

\* A checkout failed InsufficientStock at its first line while its second
\* line has a malformed id.
C8_Witness ==
    \E p \in Procs :
        /\ Returned(p)
        /\ result[p].kind = "InsufficientStock"
        /\ i[p] = 1
        /\ Len(cart[p]) = 2
        /\ ~ObjectIdValid(cart[p][2].product_id)

\* C9: after a successful checkout served alone, each product named in the
\* cart has the stock it had minus the quantity requested of it and in_stock
\* true, its other fields as before; every other product is as before.
C9_SuccessEffect ==
    \A p \in Procs :
        Succeeded(p) =>
            \A o \in Oids :
                LET before == snap[p].product[o]
                    named == \E n \in 1..Len(cart[p]) :
                                 ObjectId(cart[p][n].product_id) = o
                IN  db.product[o] =
                        IF named
                        THEN [before EXCEPT !.stock = @ - RequestedOf(cart[p], o),
                                            !.in_stock = TRUE]
                        ELSE before

\* A successful checkout of two lines that took a product whose in_stock was
\* false down to stock 0.
C9_Witness ==
    \E p \in Procs :
        /\ Succeeded(p)
        /\ Len(cart[p]) = 2
        /\ \E o \in Oids :
               /\ snap[p].product[o] # None
               /\ ~snap[p].product[o].in_stock
               /\ db.product[o].stock = 0
               /\ db.product[o].in_stock

\* C10: update_product answers a malformed id with InvalidReference, else an
\* empty field set with ValidationError, else an id no product has with
\* NotFound.
C10_UpdateErrors ==
    (admin # None /\ admin.request.op = "update_product") =>
        LET r == admin.request
        IN  IF ~ObjectIdValid(r.product_id) THEN admin.kind = "InvalidReference"
            ELSE IF DOMAIN r.update = {} THEN admin.kind = "ValidationError"
            ELSE db.product[ObjectId(r.product_id)] = None =>
                     admin.kind = "NotFound"

\* The step is update_product answering ok.
UpdateOk ==
    /\ admin = None
    /\ admin' # None
    /\ admin'.request.op = "update_product"
    /\ admin'.kind = "ok"

\* C11: an update_product that answers ok was given a non-empty field set for
\* a product that exists; it sets each supplied field to the supplied value
\* and leaves the product's other fields except updated_at, every other
\* product and every order as they were.
C11_PartialUpdate ==
    [][ UpdateOk =>
          LET r == admin'.request
              oid == ObjectId(r.product_id)
              before == db.product[oid]
              after == db'.product[oid]
          IN  /\ DOMAIN r.update # {}
              /\ before # None
              /\ DOMAIN after = DOMAIN before
              /\ \A f \in DOMAIN r.update : after[f] = r.update[f]
              /\ \A f \in DOMAIN before \ (DOMAIN r.update \cup {"updated_at"}) :
                     after[f] = before[f]
              /\ \A o \in Oids \ {oid} : db'.product[o] = db.product[o]
              /\ db'.order = db.order ]_vars

\* update_product has set the price alone of a product named in upper case,
\* whose title and stock are not the ones an update would set, while another
\* product and an order exist.
C11_Witness ==
    /\ admin # None
    /\ admin.request.op = "update_product"
    /\ admin.kind = "ok"
    /\ DOMAIN admin.request.update = {"price"}
    /\ admin.request.product_id = "P2"
    /\ db.product["p2"].price = UpdateValues.price
    /\ db.product["p2"].title = "B"
    /\ db.product["p2"].stock # UpdateValues.stock
    /\ db.product["p1"] # None
    /\ Len(db.order) > 0

\* C12 as claimed: no order of the order collection has zero items.
C12_OrdersNonEmpty ==
    \A k \in 1..Len(db.order) : db.order[k].items # <<>>

\* C12 as amended: the order of a successful checkout has zero items exactly
\* when the cart had no line (CheckoutRequest.items has no minimum length);
\* and every order with zero items has total 0.
C12_EmptyOnlyFromEmptyCart ==
    /\ \A p \in Procs :
           Succeeded(p) =>
               /\ (OrderOf(p).items = <<>>) <=> (cart[p] = <<>>)
               /\ cart[p] # <<>> => Len(OrderOf(p).items) >= 1
    /\ \A k \in 1..Len(db.order) :
           db.order[k].items = <<>> => db.order[k].total = 0

\* A checkout of two lines has succeeded while the collection also holds the
\* order of a checkout of an empty cart.
C12_Witness ==
    \E p \in Procs :
        /\ Succeeded(p)
        /\ Len(cart[p]) = 2
        /\ OrderOf(p).items # <<>>
        /\ \E k \in 1..Len(db.order) : db.order[k].items = <<>>

\* The step appends to the order collection.
OrderInserted == Len(db'.order) # Len(db.order)

\* The step is the checkout of thread p returning an order.
ReturnsOk(p) ==
    /\ result[p] = None
    /\ result'[p] # None
    /\ result'[p].kind = "ok"

\* C13: a step that inserts an order is the step of one checkout that has
\* made the update_one of every line of its cart (its decrement loop has run
\* Len(cart) times), inserts one order, with status "paid", and is the step
\* in which that checkout returns ok with the order's id; and a checkout
\* returns ok only in such a step. So the orders and the checkouts that
\* returned ok are in one-to-one correspondence.
C13_CommitOrder ==
    [][ /\ OrderInserted =>
              \E p \in Procs :
                  /\ pc[p] = "insert"
                  /\ i[p] = Len(cart[p]) + 1
                  /\ Len(db'.order) = Len(db.order) + 1
                  /\ SubSeq(db'.order, 1, Len(db.order)) = db.order
                  /\ db'.order[Len(db'.order)].status = "paid"
                  /\ ReturnsOk(p)
                  /\ result'[p].order_id = db'.order[Len(db'.order)]._id
                  /\ \A q \in Procs \ {p} : result'[q] = result[q]
        /\ \A p \in Procs : ReturnsOk(p) => OrderInserted ]_vars

\* Two checkouts of two lines each, run concurrently, have both returned an
\* order, and the collection holds two orders.
C13_Witness ==
    /\ \A p \in Procs : Succeeded(p) /\ Len(cart[p]) = 2
    /\ Len(db.order) = 2
    /\ OrderOf(1) # OrderOf(2)

\* C14: an update_product that answers ok leaves the product with an
\* updated_at strictly later than the one it had.
C14_UpdatedAtRefreshed ==
    [][ UpdateOk =>
          LET oid == ObjectId(admin'.request.product_id)
          IN  db'.product[oid].updated_at > db.product[oid].updated_at ]_vars

\* The step is list_products answering.
ListAnswered ==
    /\ admin = None
    /\ admin' # None
    /\ admin'.request.op = "list_products"

\* The text query matches the product: it occurs, letter case ignored, in the
\* title or in the description.
TextMatches(query, prod) ==
    \E text \in {prod.title, prod.description} :
        query = "" \/ lower(query) = lower(text)

\* body is the products of the store d whose ids are in wanted, each once,
\* as the store holds them with _id given as id, newest first.
IsListing(body, d, wanted) ==
    /\ {body[k].id : k \in 1..Len(body)} = {str(o) : o \in wanted}
    /\ Len(body) = Cardinality(wanted)
    /\ \A k \in 1..Len(body) :
           \E o \in wanted :
               /\ body[k].id = str(o)
               /\ \A f \in DOMAIN d.product[o] \ {"_id"} :
                      body[k][f] = d.product[o][f]
    /\ \A j, k \in 1..Len(body) :
           j < k => body[j].created_at >= body[k].created_at

\* C15 as claimed: list_products returns exactly the products p with (q not
\* given or q matching p) and (category not given or p.category = category),
\* each once, newest first.
C15_ListProducts ==
    [][ ListAnswered =>
          LET params == admin'.request.params
              wanted == {o \in Oids :
                  /\ db.product[o] # None
                  /\ "q" \in DOMAIN params => TextMatches(params.q, db.product[o])
                  /\ "category" \in DOMAIN params =>
                         db.product[o].category = params.category}
          IN  IsListing(admin'.body, db, wanted) ]_vars

\* C15 as amended: the same, a parameter given as the empty string counting
\* as not given.
C15_ListProductsNonEmpty ==
    [][ ListAnswered =>
          LET params == admin'.request.params
              given(f) == f \in DOMAIN params /\ params[f] # ""
              wanted == {o \in Oids :
                  /\ db.product[o] # None
                  /\ given("q") => TextMatches(params.q, db.product[o])
                  /\ given("category") =>
                         db.product[o].category = params.category}
          IN  IsListing(admin'.body, db, wanted) ]_vars

\* list_products has answered a query with both q and category that one of
\* three products satisfies, matching q by its description only, in another
\* letter case, while the other two match q but not the category.
C15_Witness ==
    /\ admin # None
    /\ admin.request.op = "list_products"
    /\ admin.request.params = [q |-> "D", category |-> "k"]
    /\ Len(admin.body) = 1
    /\ admin.body[1].id = "p2"
    /\ \A o \in Oids : db.product[o] # None

\* The cart has a line whose quantity is below 1.
HasBadLine(c) == \E n \in 1..Len(c) : c[n].quantity < 1

\* The step is a step of the checkout of thread p.
StepOf(p) == <<pc[p], i[p], result[p]>>' # <<pc[p], i[p], result[p]>>

\* C16: a checkout whose cart has a line with quantity < 1, wherever the line
\* is, never reaches its commit phase and never returns ok, and no step of it
\* changes a product or an order; and no step of any checkout raises a
\* product's stock.
C16_BadQuantityRejected ==
    [][ /\ \A p \in Procs :
               HasBadLine(cart[p]) =>
                   /\ pc'[p] \notin {"commit", "insert"}
                   /\ ~ReturnsOk(p)
                   /\ StepOf(p) => db' = db
        /\ admin' = admin =>
               \A o \in Oids :
                   db.product[o] # None =>
                       db'.product[o].stock <= db.product[o].stock ]_vars

\* A checkout of two lines, the first a line that passes, the second with
\* quantity -1, has ended in an error at the second line with the store as
\* it was when the checkout began.
C16_Witness ==
    \E p \in Procs :
        /\ Failed(p)
        /\ Len(cart[p]) = 2
        /\ cart[p][1].quantity = 3
        /\ cart[p][2].quantity = -1
        /\ i[p] = 2
        /\ Len(seen[p]) = 2
        /\ db = snap[p]

\* The stock product o was created with: that of Init for the products of
\* Init, that of ProductCreate for a product created since.
CreatedStock(o) ==
    IF InitialProducts[o] # None THEN InitialProducts[o].stock
    ELSE ProductCreate.stock

\* The quantity of product o in the items of one order.
RECURSIVE QuantityIn(_, _)
QuantityIn(items, o) ==
    IF items = <<>> THEN 0
    ELSE QuantityIn(SubSeq(items, 1, Len(items) - 1), o)
         + (IF items[Len(items)].product_id = str(o)
            THEN items[Len(items)].quantity ELSE 0)

\* The quantity of product o in the items of all the orders.
RECURSIVE OrderedOf(_, _)
OrderedOf(orders, o) ==
    IF orders = <<>> THEN 0
    ELSE OrderedOf(SubSeq(orders, 1, Len(orders) - 1), o)
         + QuantityIn(orders[Len(orders)].items, o)

\* No checkout is between its acceptance and its return.
NoCheckoutInProgress == \A p \in Procs : pc[p] \in {"idle", "done"}

\* C17: with no store failure and no admin write of a stock, whenever no
\* checkout is in progress each product's stock is the stock it was created
\* with minus the quantities of the order items that reference it.
C17_StockConservation ==
    NoCheckoutInProgress =>
        \A o \in Oids :
            db.product[o] # None =>
                CreatedStock(o) - db.product[o].stock = OrderedOf(db.order, o)

\* Two concurrent checkouts have both sold 3 of the 5 units of a product, one
\* of them in a cart of two lines; no checkout is in progress.
C17_Witness ==
    /\ NoCheckoutInProgress
    /\ Len(db.order) = 2
    /\ db.product["p1"].stock = -1
    /\ db.product["p2"].stock = 0
    /\ OrderedOf(db.order, "p1") = 6
    /\ OrderedOf(db.order, "p2") = 3

====
